---- MODULE Spec2Model ----
(***************************************************************************)
(* Model of src/bedrock_integration.py: the pipeline                       *)
(*   prepare_prompt -> invoke_claude_model -> extract_narrative_claude     *)
(* run by get_ai_analysis, with generate_fallback_narrative as recovery.   *)
(*                                                                         *)
(* Python values are modelled structurally:                                *)
(*   - a str is a sequence of characters;                                  *)
(*   - a dict is a record; a key that is missing holds the marker Absent,  *)
(*     and d.get(k, default) is the operator Get;                          *)
(*   - a JSON value carries a `kind` naming its Python type;               *)
(*   - a raised exception is a result record with raised = TRUE.           *)
(* Only failures derived from Exception are modelled (what boto3, json     *)
(* and attribute/type errors raise).                                       *)
(***************************************************************************)
EXTENDS Integers, Sequences, FiniteSets, TLC

VARIABLES
    findings,              \* argument of get_ai_analysis
    pc,                    \* position inside get_ai_analysis
    severity_counts,       \* local of prepare_prompt
    findings_by_category,  \* local of prepare_prompt (insertion-ordered dict)
    prompt,                \* value returned by prepare_prompt
    response,              \* value returned by invoke_claude_model
    result,                \* value returned by get_ai_analysis
    invokeCalls,           \* number of bedrock.invoke_model calls made
    fallbackCalls,         \* number of generate_fallback_narrative calls made
    log                    \* the lines printed so far

vars == <<findings, pc, severity_counts, findings_by_category, prompt,
          response, result, invokeCalls, fallbackCalls, log>>

----------------------------------------------------------------------------
(* Bounds of the model *)

MaxFindings == 3
MaxLong == 6
MaxParts == 2
MaxTextLen == 2

----------------------------------------------------------------------------
(* Python values *)

Absent == "<absent>"
None == "None"
Unset == "<unset>"

Get(d, k, default) == IF d[k] = Absent THEN default ELSE d[k]

\* the lists of at most n elements of S
SeqsUpTo(S, n) == UNION {[1..k -> S] : k \in 0..n}

----------------------------------------------------------------------------
(* Findings *)

Severities == {"Critical", "High", "Medium", "Low", "Informational"}

\* a severity outside the five labels, and a missing severity key
SeverityValues == Severities \cup {"Unknown", Absent}
CategoryValues == {"IAM", "S3", Absent}

\* what a caller can put in one position of the list: a dict, or not a dict
FindingShapes ==
    [isdict : {TRUE}, severity : SeverityValues, category : CategoryValues]

NotADict == [isdict |-> FALSE, severity |-> Absent, category |-> Absent]

LongShapes ==
    [isdict : {TRUE}, severity : {"Critical", "Low"}, category : {"IAM", Absent}]

\* each element of the list is its own object: resource_id is its position
MakeFindings(shapes) ==
    [i \in 1..Len(shapes) |->
        [isdict |-> shapes[i].isdict,
         severity |-> shapes[i].severity,
         category |-> shapes[i].category,
         resource_id |-> i]]

RichFindings == {MakeFindings(s) : s \in SeqsUpTo(FindingShapes, MaxFindings)}
LongFindings == {MakeFindings(s) : s \in SeqsUpTo(LongShapes, MaxLong)}
OrchFindings ==
    {MakeFindings(s) : s \in SeqsUpTo({NotADict} \cup
        [isdict : {TRUE}, severity : {"High", Absent}, category : {"IAM"}], 1)}

----------------------------------------------------------------------------
(* prepare_prompt *)

ZeroCounts == [s \in Severities |-> 0]

\* variant: a missing severity counted under "Low", as the sort key does
RECURSIVE CountSeveritiesDefaultLow(_, _, _)
CountSeveritiesDefaultLow(fs, i, counts) ==
    IF i > Len(fs) THEN counts
    ELSE LET sev == Get(fs[i], "severity", "Low")
         IN CountSeveritiesDefaultLow(fs, i + 1,
                IF sev \in DOMAIN counts
                THEN [counts EXCEPT ![sev] = @ + 1]
                ELSE counts)

RECURSIVE CountSeverities(_, _, _)
CountSeverities(fs, i, counts) ==
    IF i > Len(fs) THEN counts
    ELSE LET sev == Get(fs[i], "severity", None)
         IN CountSeverities(fs, i + 1,
                IF sev \in DOMAIN counts
                THEN [counts EXCEPT ![sev] = @ + 1]
                ELSE counts)

\* the dict findings_by_category as the sequence of its items, in insertion order
HasKey(groups, category) == \E g \in 1..Len(groups) : groups[g].category = category

\* variant: the finding appended to every group
AppendToEvery(groups, category, finding) ==
    [g \in 1..Len(groups) |->
        [groups[g] EXCEPT !.findings = Append(@, finding)]]

AppendTo(groups, category, finding) ==
    [g \in 1..Len(groups) |->
        IF groups[g].category = category
        THEN [groups[g] EXCEPT !.findings = Append(@, finding)]
        ELSE groups[g]]

DefaultCategory == "Other"

RECURSIVE GroupByCategory(_, _, _)
GroupByCategory(fs, i, groups) ==
    IF i > Len(fs) THEN groups
    ELSE LET category == Get(fs[i], "category", DefaultCategory)
             withKey == IF HasKey(groups, category) THEN groups
                        ELSE Append(groups, [category |-> category, findings |-> <<>>])
         IN GroupByCategory(fs, i + 1, AppendTo(withKey, category, fs[i]))

severity_order ==
    [s \in Severities |->
        CASE s = "Critical" -> 0
          [] s = "High" -> 1
          [] s = "Medium" -> 2
          [] s = "Low" -> 3
          [] s = "Informational" -> 4]

UnknownRank == 999

SortDefault == "Low"

\* variant: no default severity in the sort key
SortKeyNoDefault(x) ==
    LET sev == Get(x, "severity", None)
    IN IF sev \in DOMAIN severity_order THEN severity_order[sev] ELSE UnknownRank

SortKey(x) ==
    LET sev == Get(x, "severity", SortDefault)
    IN IF sev \in DOMAIN severity_order THEN severity_order[sev] ELSE UnknownRank

\* sorted(): a stable sort; x goes after every element whose key is not greater
RECURSIVE InsertByKey(_, _)
InsertByKey(x, s) ==
    IF s = <<>> THEN <<x>>
    ELSE IF SortKey(x) < SortKey(Head(s)) THEN <<x>> \o s
    ELSE <<Head(s)>> \o InsertByKey(x, Tail(s))

RECURSIVE sorted(_)
sorted(s) ==
    IF s = <<>> THEN <<>>
    ELSE InsertByKey(s[Len(s)], sorted(SubSeq(s, 1, Len(s) - 1)))

TopN == 5

\* the lines appended to findings_summary
CategoryLine(category) ==
    [kind |-> "category", category |-> category, severity |-> None,
     resource_id |-> 0, count |-> 0]

FindingLine(finding) ==
    [kind |-> "finding", category |-> None,
     severity |-> Get(finding, "severity", None),
     resource_id |-> finding.resource_id, count |-> 0]

MoreLine(category, n) ==
    [kind |-> "more", category |-> category, severity |-> None,
     resource_id |-> 0, count |-> n]

FirstN(s, n) == SubSeq(s, 1, IF Len(s) < n THEN Len(s) ELSE n)

\* variant: the remainder line written from 5 findings on
RenderCategoryAtLeast(group) ==
    LET sorted_findings == sorted(group.findings)
        shown == FirstN(sorted_findings, TopN)
    IN <<CategoryLine(group.category)>>
       \o [j \in 1..Len(shown) |-> FindingLine(shown[j])]
       \o (IF Len(group.findings) >= TopN
           THEN <<MoreLine(group.category, Len(group.findings) - TopN)>>
           ELSE <<>>)

RenderCategory(group) ==
    LET sorted_findings == sorted(group.findings)
        shown == FirstN(sorted_findings, TopN)
    IN <<CategoryLine(group.category)>>
       \o [j \in 1..Len(shown) |-> FindingLine(shown[j])]
       \o (IF Len(group.findings) > TopN
           THEN <<MoreLine(group.category, Len(group.findings) - TopN)>>
           ELSE <<>>)

RECURSIVE RenderSummary(_, _, _)
RenderSummary(groups, g, findings_summary) ==
    IF g > Len(groups) THEN findings_summary
    ELSE RenderSummary(groups, g + 1, findings_summary \o RenderCategory(groups[g]))

\* finding.get(...) on an element that is not a dict raises AttributeError
PrepareRaises(fs) == \E i \in 1..Len(fs) : ~fs[i].isdict

prepare_prompt(fs) ==
    LET counts == CountSeverities(fs, 1, ZeroCounts)
        groups == GroupByCategory(fs, 1, <<>>)
    IN [severity_counts |-> counts,
        findings_by_category |-> groups,
        prompt |-> [total |-> Len(fs),
                    counts |-> counts,
                    lines |-> RenderSummary(groups, 1, <<>>)]]

----------------------------------------------------------------------------
(* Strings and the fixed fallback text *)

Chars == {"a", " "}
Whitespace == {" "}

RECURSIVE lstrip(_)
lstrip(s) ==
    IF s # <<>> /\ Head(s) \in Whitespace THEN lstrip(Tail(s)) ELSE s

RECURSIVE rstrip(_)
rstrip(s) ==
    IF s # <<>> /\ s[Len(s)] \in Whitespace
    THEN rstrip(SubSeq(s, 1, Len(s) - 1))
    ELSE s

\* variant: only the leading whitespace removed
strip_leading_only(s) == lstrip(s)

strip(s) == rstrip(lstrip(s))

\* the literal returned at lines 326-343, one element per section of the text
generate_fallback_narrative ==
    <<"# AWS Access Review Report\n\n",
      "## Executive Summary\n\n",
      "Due to technical limitations, a detailed AI analysis could not be generated. ",
      "## Key Recommendations\n\n",
      "## Next Steps\n\n",
      "This report was generated by the AWS Access Review Tool.">>

----------------------------------------------------------------------------
(* The parsed response body: any JSON value json.loads can return *)

Strings == SeqsUpTo(Chars, MaxTextLen)

\* the value under the key "text" of a part
TextValues ==
    [kind : {"absent", "null", "number"}, chars : {<<>>}]
    \cup [kind : {"str"}, chars : Strings]

AbsentText == [kind |-> "absent", chars |-> <<>>]

\* one element met when iterating `content`: a dict, or a str
DictParts ==
    [isdict : {TRUE}, type : {"text"}, text : TextValues]
    \cup [isdict : {TRUE}, type : {"image", Absent},
          text : {AbsentText, [kind |-> "str", chars |-> <<"a">>]}]
StrPart == [isdict |-> FALSE, type |-> Absent, text |-> AbsentText]
Parts == DictParts \cup {StrPart}

\* the value under the key "content"; items is what iterating it yields
\* (a list yields its elements, a str its characters, a dict its keys)
ContentValues ==
    [kind : {"absent", "null", "number"}, items : {<<>>}]
    \cup [kind : {"list"}, items : SeqsUpTo(Parts, MaxParts)]
    \cup [kind : {"str", "dict"}, items : SeqsUpTo({StrPart}, 1)]

AbsentContent == [kind |-> "absent", items |-> <<>>]
EmptyList == [kind |-> "list", items |-> <<>>]

Responses ==
    [isdict : {TRUE}, content : ContentValues]
    \cup {[isdict |-> FALSE, content |-> AbsentContent]}

----------------------------------------------------------------------------
(* extract_narrative_claude *)

\* variant: response["content"] without a default
content_parts_required(resp) == resp.content

\* response.get("content", [])
content_parts(resp) ==
    IF resp.content.kind = "absent" THEN EmptyList ELSE resp.content

Iterable == {"list", "str", "dict"}

\* the for loop of lines 297-299; raised = TRUE when an iteration raises
RECURSIVE ConcatTextParts(_, _, _)
ConcatTextParts(parts, i, narrative) ==
    IF i > Len(parts) THEN [raised |-> FALSE, narrative |-> narrative]
    ELSE IF ~parts[i].isdict THEN [raised |-> TRUE, narrative |-> narrative]
    ELSE IF Get(parts[i], "type", None) = "text"
    THEN IF parts[i].text.kind = "absent"
         THEN ConcatTextParts(parts, i + 1, narrative \o <<>>)
         ELSE IF parts[i].text.kind = "str"
         THEN ConcatTextParts(parts, i + 1, narrative \o parts[i].text.chars)
         ELSE [raised |-> TRUE, narrative |-> narrative]
    ELSE ConcatTextParts(parts, i + 1, narrative)

\* the body of the try block, lines 291-301
ExtractTry(resp) ==
    IF ~resp.isdict THEN [raised |-> TRUE, narrative |-> <<>>]
    ELSE IF content_parts(resp).kind \notin Iterable
    THEN [raised |-> TRUE, narrative |-> <<>>]
    ELSE LET r == ConcatTextParts(content_parts(resp).items, 1, <<>>)
         IN [raised |-> r.raised, narrative |-> strip(r.narrative)]

\* the whole function: the except clause substitutes the fallback
extract_narrative_claude(resp) ==
    LET r == ExtractTry(resp)
    IN IF r.raised
       THEN [caught |-> TRUE, narrative |-> generate_fallback_narrative]
       ELSE [caught |-> FALSE, narrative |-> r.narrative]

----------------------------------------------------------------------------
(* get_ai_analysis, one action per step of its try block *)

LogPrepare == "Preparing AI prompt from security findings..."
LogInvoke == "Invoking Amazon Bedrock Claude model..."
LogReceived == "Successfully received response from Bedrock (Claude 3)"
LogInvokeError == "Exception while calling Bedrock"
LogProcess == "Processing AI response..."
LogExtractError == "Error extracting narrative from Bedrock response"
LogSuccess == "AI narrative generation successful"
LogHandler == "Error generating narrative with Bedrock"
LogFallback == "Generating fallback narrative due to AI processing failure"

\* variant: a failure of prepare_prompt ignored, the pipeline going on
PreparePromptIgnoringFailure ==
    /\ pc = "start"
    /\ pc' = "prompted"
    /\ IF PrepareRaises(findings)
       THEN UNCHANGED <<severity_counts, findings_by_category, prompt>>
       ELSE /\ severity_counts' = prepare_prompt(findings).severity_counts
            /\ findings_by_category' = prepare_prompt(findings).findings_by_category
            /\ prompt' = prepare_prompt(findings).prompt
    /\ log' = Append(log, LogPrepare)
    /\ UNCHANGED <<findings, response, result, invokeCalls, fallbackCalls>>

\* line 53: prompt = prepare_prompt(findings)
PreparePrompt ==
    /\ pc = "start"
    /\ IF PrepareRaises(findings)
       THEN /\ pc' = "except"
            /\ UNCHANGED <<severity_counts, findings_by_category, prompt>>
       ELSE /\ pc' = "prompted"
            /\ severity_counts' = prepare_prompt(findings).severity_counts
            /\ findings_by_category' = prepare_prompt(findings).findings_by_category
            /\ prompt' = prepare_prompt(findings).prompt
    /\ log' = Append(log, LogPrepare)
    /\ UNCHANGED <<findings, response, result, invokeCalls, fallbackCalls>>

\* the points of invoke_claude_model's try block that can raise
InvokeFailures == {"invoke_model", "read", "json.loads"}

\* line 58: response = invoke_claude_model(bedrock_client, prompt), returning
InvokeReturns ==
    /\ pc = "prompted"
    /\ \E body \in Responses : response' = body
    /\ invokeCalls' = invokeCalls + 1
    /\ log' = log \o <<LogInvoke, LogReceived>>
    /\ pc' = "invoked"
    /\ UNCHANGED <<findings, severity_counts, findings_by_category, prompt,
                   result, fallbackCalls>>

\* variant: the failure logged and swallowed, an empty body returned
InvokeRaisesSwallowed ==
    /\ pc = "prompted"
    /\ \E failure \in InvokeFailures :
          log' = log \o <<LogInvoke, LogInvokeError, failure>>
    /\ invokeCalls' = invokeCalls + 1
    /\ response' = [isdict |-> TRUE, content |-> AbsentContent]
    /\ pc' = "invoked"
    /\ UNCHANGED <<findings, severity_counts, findings_by_category, prompt,
                   result, fallbackCalls>>

\* line 58, the call raising: lines 280-284 log and re-raise
InvokeRaises ==
    /\ pc = "prompted"
    /\ \E failure \in InvokeFailures :
          log' = log \o <<LogInvoke, LogInvokeError, failure>>
    /\ invokeCalls' = invokeCalls + 1
    /\ pc' = "except"
    /\ UNCHANGED <<findings, severity_counts, findings_by_category, prompt,
                   response, result, fallbackCalls>>

\* variant: a failure inside the extractor propagated to the caller's handler
ExtractNarrativePropagating ==
    /\ pc = "invoked"
    /\ LET r == ExtractTry(response)
       IN /\ result' = IF r.raised THEN result ELSE r.narrative
          /\ log' = log \o <<LogProcess>>
                        \o (IF r.raised THEN <<>> ELSE <<LogSuccess>>)
          /\ pc' = IF r.raised THEN "except" ELSE "returned"
    /\ UNCHANGED <<findings, severity_counts, findings_by_category, prompt,
                   response, invokeCalls, fallbackCalls>>

\* lines 63-65: narrative = extract_narrative_claude(response); return narrative
ExtractNarrative ==
    /\ pc = "invoked"
    /\ LET r == extract_narrative_claude(response)
       IN /\ result' = r.narrative
          /\ fallbackCalls' = IF r.caught THEN fallbackCalls + 1 ELSE fallbackCalls
          /\ log' = log \o <<LogProcess>>
                        \o (IF r.caught THEN <<LogExtractError, LogFallback>> ELSE <<>>)
                        \o <<LogSuccess>>
    /\ pc' = "returned"
    /\ UNCHANGED <<findings, severity_counts, findings_by_category, prompt,
                   response, invokeCalls>>

\* variant: the handler calling the service once more after a failed call
HandleExceptionRetry ==
    /\ pc = "except"
    /\ IF invokeCalls = 1
       THEN /\ pc' = "prompted"
            /\ log' = log \o <<LogHandler>>
            /\ UNCHANGED <<result, fallbackCalls>>
       ELSE /\ result' = generate_fallback_narrative
            /\ fallbackCalls' = fallbackCalls + 1
            /\ log' = log \o <<LogHandler, LogFallback>>
            /\ pc' = "returned"
    /\ UNCHANGED <<findings, severity_counts, findings_by_category, prompt,
                   response, invokeCalls>>

\* lines 67-79: except Exception ... return generate_fallback_narrative()
HandleException ==
    /\ pc = "except"
    /\ result' = generate_fallback_narrative
    /\ fallbackCalls' = fallbackCalls + 1
    /\ log' = log \o <<LogHandler, LogFallback>>
    /\ pc' = "returned"
    /\ UNCHANGED <<findings, severity_counts, findings_by_category, prompt,
                   response, invokeCalls>>

----------------------------------------------------------------------------
(* Specifications *)

InitLocals ==
    /\ severity_counts = Unset
    /\ findings_by_category = Unset
    /\ prompt = Unset
    /\ response = Unset
    /\ result = Unset
    /\ invokeCalls = 0
    /\ fallbackCalls = 0
    /\ log = <<>>

\* get_ai_analysis called with a client and a list
Init ==
    /\ findings \in OrchFindings
    /\ pc = "start"
    /\ InitLocals

Next ==
    \/ PreparePrompt
    \/ InvokeReturns
    \/ InvokeRaises
    \/ ExtractNarrative
    \/ HandleException

Spec == Init /\ [][Next]_vars

\* prepare_prompt applied to every bounded list of findings
InitPrompt ==
    /\ findings \in RichFindings \cup LongFindings
    /\ pc = "start"
    /\ InitLocals

NextPrompt == PreparePrompt

SpecPrompt == InitPrompt /\ [][NextPrompt]_vars

\* extract_narrative_claude applied to every bounded response body
InitExtract ==
    /\ findings = <<>>
    /\ pc = "invoked"
    /\ severity_counts = prepare_prompt(<<>>).severity_counts
    /\ findings_by_category = prepare_prompt(<<>>).findings_by_category
    /\ prompt = prepare_prompt(<<>>).prompt
    /\ response \in Responses
    /\ result = Unset
    /\ invokeCalls = 1
    /\ fallbackCalls = 0
    /\ log = <<LogPrepare, LogInvoke, LogReceived>>

NextExtract == ExtractNarrative

SpecExtract == InitExtract /\ [][NextExtract]_vars

----------------------------------------------------------------------------
(* Vocabulary of the properties *)

InLog(m) == \E i \in 1..Len(log) : log[i] = m

Occurrences(m) == Cardinality({i \in 1..Len(log) : log[i] = m})

\* position of the first occurrence of m in the log, 0 when there is none
Pos(m) == IF InLog(m) THEN CHOOSE i \in 1..Len(log) :
                               log[i] = m /\ \A k \in 1..(i - 1) : log[k] # m
          ELSE 0

IsString(s) == \A i \in 1..Len(s) : s[i] \in Chars

Recognized(f) == f.severity \in Severities

\* the places <<g, j>> of findings_by_category
Places ==
    {p \in (1..Len(findings_by_category)) \X (1..Len(findings)) :
        p[2] <= Len(findings_by_category[p[1]].findings)}

PlacesOf(f) == {p \in Places : findings_by_category[p[1]].findings[p[2]] = f}

\* the lines of the prompt under the category line at index h
Section(h) ==
    {j \in (h + 1)..Len(prompt.lines) :
        \A k \in (h + 1)..j : prompt.lines[k].kind # "category"}

Headers == {h \in 1..Len(prompt.lines) : prompt.lines[h].kind = "category"}

FindingLines(h) == {j \in Section(h) : prompt.lines[j].kind = "finding"}

MoreLines(h) == {j \in Section(h) : prompt.lines[j].kind = "more"}

\* the element of the input a finding line was rendered from
LineFinding(j) == findings[prompt.lines[j].resource_id]

FirstIndex(category) ==
    CHOOSE i \in 1..Len(findings) :
        /\ Get(findings[i], "category", "Other") = category
        /\ \A k \in 1..(i - 1) : Get(findings[k], "category", "Other") # category

Min(a, b) == IF a < b THEN a ELSE b

----------------------------------------------------------------------------
(* C5: the five severity counts are the numbers of findings carrying each  *)
(* label, so they sum to the number of findings with a recognized          *)
(* severity; a finding with an absent or unrecognized severity adds to no  *)
(* counter, yet it is in a category group and in "Total findings".         *)
C5_SeverityCounts ==
    pc = "prompted" =>
        /\ \A s \in Severities :
              severity_counts[s] =
                  Cardinality({i \in 1..Len(findings) : findings[i].severity = s})
        /\ severity_counts["Critical"] + severity_counts["High"]
             + severity_counts["Medium"] + severity_counts["Low"]
             + severity_counts["Informational"]
           = Cardinality({i \in 1..Len(findings) : Recognized(findings[i])})
        /\ prompt.counts = severity_counts
        /\ prompt.total = Len(findings)
        /\ \A i \in 1..Len(findings) :
              ~Recognized(findings[i]) => PlacesOf(findings[i]) # {}

C5_Witness ==
    /\ pc = "prompted"
    /\ \E i, j, k \in 1..Len(findings) :
          /\ findings[i].severity = "Unknown"
          /\ findings[j].severity = Absent
          /\ findings[k].severity = "High"
    /\ severity_counts["High"] = 1
    /\ prompt.total = 3

(* C6: the grouping is a partition of the input: every finding is at       *)
(* exactly one place of exactly one group, the group sizes sum to the      *)
(* number of findings, the group is labelled with the finding's category,  *)
(* and a finding without a category is in the group "Other".               *)
C6_Partition ==
    pc = "prompted" =>
        /\ Cardinality(Places) = Len(findings)
        /\ \A i \in 1..Len(findings) :
              /\ Cardinality(PlacesOf(findings[i])) = 1
              /\ \A p \in PlacesOf(findings[i]) :
                    findings_by_category[p[1]].category =
                        (IF findings[i].category = Absent THEN "Other"
                         ELSE findings[i].category)
        /\ \A g, h \in 1..Len(findings_by_category) :
              findings_by_category[g].category = findings_by_category[h].category
                  => g = h

C6_Witness ==
    /\ pc = "prompted"
    /\ Len(findings_by_category) = 3
    /\ \E i \in 1..Len(findings) : findings[i].category = Absent
    /\ \E g \in 1..Len(findings_by_category) :
          findings_by_category[g].category = "Other"

(* C7: a category with n findings is rendered as min(n, 5) finding lines;  *)
(* when n > 5 they are followed by exactly one remainder line whose count  *)
(* is n - 5 (shown + remainder = n), and when n <= 5 there is none.        *)
C7_TopFive ==
    pc = "prompted" =>
        /\ Cardinality(Headers) = Len(findings_by_category)
        /\ \A g \in 1..Len(findings_by_category) :
              \E h \in Headers :
                 LET n == Len(findings_by_category[g].findings)
                 IN /\ prompt.lines[h].category = findings_by_category[g].category
                    /\ Cardinality(FindingLines(h)) = Min(n, 5)
                    /\ n <= 5 => MoreLines(h) = {}
                    /\ n > 5 =>
                          /\ Cardinality(MoreLines(h)) = 1
                          /\ \A m \in MoreLines(h) :
                                /\ prompt.lines[m].count = n - 5
                                /\ Cardinality(FindingLines(h)) + prompt.lines[m].count = n
                                /\ \A j \in FindingLines(h) : j < m

C7_Witness ==
    /\ pc = "prompted"
    /\ \E g \in 1..Len(findings_by_category) :
          Len(findings_by_category[g].findings) = 6
    /\ \E m \in 1..Len(prompt.lines) :
          prompt.lines[m].kind = "more" /\ prompt.lines[m].count = 1

(* C8 as stated: categories are rendered in the order of their first       *)
(* occurrence in the input, and inside a category the finding lines are in *)
(* non-decreasing rank Critical < High < Medium < Low < Informational <    *)
(* unrecognized, a finding with an absent or unrecognized severity ranking *)
(* after every recognized one, ties keeping their input order.             *)
ClaimedRank(f) ==
    IF Recognized(f) THEN severity_order[f.severity] ELSE 5

CategoriesInFirstOccurrenceOrder ==
    /\ \A h \in Headers :
          \E i \in 1..Len(findings) :
              Get(findings[i], "category", "Other") = prompt.lines[h].category
    /\ \A i \in 1..Len(findings) :
          \E h \in Headers :
              Get(findings[i], "category", "Other") = prompt.lines[h].category
    /\ \A h1, h2 \in Headers :
          h1 < h2 => FirstIndex(prompt.lines[h1].category)
                         < FirstIndex(prompt.lines[h2].category)

C8_AsStated ==
    pc = "prompted" =>
        /\ CategoriesInFirstOccurrenceOrder
        /\ \A h \in Headers : \A i, j \in FindingLines(h) :
              i < j =>
                 /\ ClaimedRank(LineFinding(i)) <= ClaimedRank(LineFinding(j))
                 /\ ClaimedRank(LineFinding(i)) = ClaimedRank(LineFinding(j))
                       => prompt.lines[i].resource_id < prompt.lines[j].resource_id

(* C8 amended: the same, with the rank the code sorts by: a finding with   *)
(* no severity field ranks as Low, and only a finding whose severity is    *)
(* present but not one of the five labels ranks after every recognized one.*)
AmendedRank(f) ==
    IF Recognized(f) THEN severity_order[f.severity]
    ELSE IF f.severity = Absent THEN severity_order["Low"]
    ELSE 5

C8_RenderOrder ==
    pc = "prompted" =>
        /\ CategoriesInFirstOccurrenceOrder
        /\ \A h \in Headers : \A i, j \in FindingLines(h) :
              i < j =>
                 /\ AmendedRank(LineFinding(i)) <= AmendedRank(LineFinding(j))
                 /\ AmendedRank(LineFinding(i)) = AmendedRank(LineFinding(j))
                       => prompt.lines[i].resource_id < prompt.lines[j].resource_id

\* a finding without severity rendered ahead of an Informational one, after a
\* Low one that came later in the input than it did not (a tie kept in order)
C8_Witness ==
    /\ pc = "prompted"
    /\ Cardinality(Headers) = 1
    /\ \E h \in Headers : \E i, j, k \in FindingLines(h) :
          /\ i < j /\ j < k
          /\ LineFinding(i).severity = "Low"
          /\ LineFinding(j).severity = Absent
          /\ LineFinding(k).severity = "Informational"
          /\ prompt.lines[k].resource_id = 1

----------------------------------------------------------------------------
(* Shapes of a response body *)

ContentItems == response.content.items

\* a `content` list of parts, each a mapping with a type, the text-typed ones
\* carrying a string
WellFormed ==
    /\ response.isdict
    /\ response.content.kind = "list"
    /\ \A i \in 1..Len(ContentItems) :
          /\ ContentItems[i].isdict
          /\ ContentItems[i].type # Absent
          /\ ContentItems[i].type = "text" => ContentItems[i].text.kind = "str"

NoTextPart ==
    /\ response.isdict
    /\ response.content.kind = "list"
    /\ \A i \in 1..Len(ContentItems) :
          ContentItems[i].isdict /\ ContentItems[i].type # "text"

ContentMissing == response.isdict /\ response.content.kind = "absent"

IsTextPart(p) == p.type = "text"

RECURSIVE Flatten(_)
Flatten(ps) ==
    IF ps = <<>> THEN <<>> ELSE Head(ps).text.chars \o Flatten(Tail(ps))

\* s without its leading and trailing whitespace, by positions
Trimmed(s) ==
    LET solid == {i \in 1..Len(s) : s[i] \notin Whitespace}
    IN IF solid = {} THEN <<>>
       ELSE LET first == CHOOSE i \in solid : \A k \in solid : i <= k
                last == CHOOSE i \in solid : \A k \in solid : k <= i
            IN [k \in 1..(last - first + 1) |-> s[first + k - 1]]

C4_ConcatTrim ==
    pc = "returned" /\ WellFormed =>
        /\ result = Trimmed(Flatten(SelectSeq(ContentItems, IsTextPart)))
        /\ fallbackCalls = 0
        /\ extract_narrative_claude(response).narrative = result

C4_Witness ==
    /\ pc = "returned"
    /\ WellFormed
    /\ Len(ContentItems) = 2
    /\ ContentItems[1].text.chars = <<"a", " ">>
    /\ ContentItems[2].text.chars = <<"a", " ">>
    /\ IsTextPart(ContentItems[1]) /\ IsTextPart(ContentItems[2])
    /\ result = <<"a", " ", "a">>

\* the other parts add nothing: a non-text part carrying text, next to a text part
C4_NonTextIgnored ==
    /\ pc = "returned"
    /\ WellFormed
    /\ \E i, j \in 1..Len(ContentItems) :
          /\ ContentItems[i].type = "image"
          /\ ContentItems[i].text.kind = "str"
          /\ ContentItems[i].text.chars # <<>>
          /\ ContentItems[j].type = "text"
    /\ result = <<"a">>

(* C10 as stated: on every malformed response (not a mapping, `content`    *)
(* not a list of mappings, or a text-typed part whose `text` is not a      *)
(* string) the extractor returns the fallback narrative, and               *)
(* get_ai_analysis returns it without entering its exception handler.      *)
BadText(p) == p.isdict /\ p.type = "text" /\ p.text.kind \in {"null", "number"}

Malformed ==
    \/ ~response.isdict
    \/ /\ response.content.kind # "absent"
       /\ \/ response.content.kind # "list"
          \/ \E i \in 1..Len(ContentItems) : ~ContentItems[i].isdict
          \/ \E i \in 1..Len(ContentItems) : BadText(ContentItems[i])

C10_AsStated ==
    pc = "returned" /\ InLog(LogProcess) /\ Malformed =>
        /\ result = generate_fallback_narrative
        /\ ~InLog(LogHandler)

(* C10 amended: the extractor never propagates a failure; it returns the   *)
(* fallback narrative, through the normal return path of get_ai_analysis,  *)
(* exactly on the responses on which its loop raises: the response is not  *)
(* a mapping, `content` is null or a number, `content` is a non-empty      *)
(* string or mapping, `content` is a list with an element that is not a    *)
(* mapping, or a text-typed part has a `text` that is not a string. On a   *)
(* `content` that is an empty string or an empty mapping it returns the    *)
(* empty string.                                                           *)
LoopRaises ==
    \/ ~response.isdict
    \/ response.content.kind \in {"null", "number"}
    \/ response.content.kind \in {"str", "dict", "list"}
          /\ \E i \in 1..Len(ContentItems) :
                ~ContentItems[i].isdict \/ BadText(ContentItems[i])

EmptyNonList ==
    /\ response.isdict
    /\ response.content.kind \in {"str", "dict"}
    /\ ContentItems = <<>>

C10_SelfHealing ==
    pc = "returned" /\ InLog(LogProcess) =>
        /\ ~InLog(LogHandler)
        /\ InLog(LogSuccess)
        /\ LoopRaises => /\ result = generate_fallback_narrative
                         /\ fallbackCalls = 1
                         /\ InLog(LogExtractError)
        /\ ~LoopRaises => IsString(result) /\ fallbackCalls = 0
        /\ EmptyNonList => result = <<>>

C10_Witness ==
    /\ pc = "returned"
    /\ InLog(LogProcess)
    /\ response.isdict
    /\ response.content.kind = "list"
    /\ \E i \in 1..Len(ContentItems) : BadText(ContentItems[i])
    /\ result = generate_fallback_narrative
    /\ ~InLog(LogHandler)

----------------------------------------------------------------------------
(* get_ai_analysis as a whole *)

Positions == {"start", "prompted", "invoked", "except", "returned"}

RemoteCallFailed == InLog(LogInvokeError)

PromptBuilt == ~PrepareRaises(findings)

(* C1: get_ai_analysis always comes back with a narrative string and never *)
(* leaves by an exception: at every position before the return the next    *)
(* step can be taken (a failure of the call has its handler, a failure     *)
(* inside the extractor is caught there), the value returned is a string,  *)
(* and when the remote call (the                                           *)
(* request, reading the body or parsing it) raised, the value returned is  *)
(* exactly the fallback narrative.                                         *)
C1_AlwaysANarrative ==
    /\ pc \in Positions
    /\ pc = "start" => ENABLED PreparePrompt
    /\ pc = "prompted" => ENABLED InvokeRaises
    /\ pc = "invoked" =>
          (ExtractTry(response).raised <=> extract_narrative_claude(response).caught)
    /\ pc = "except" => ENABLED HandleException
    /\ pc = "returned" =>
          /\ result = generate_fallback_narrative \/ IsString(result)
          /\ RemoteCallFailed => result = generate_fallback_narrative
          /\ ~PromptBuilt => result = generate_fallback_narrative

C1_Witness ==
    /\ pc = "returned"
    /\ RemoteCallFailed
    /\ InLog("json.loads")
    /\ result = generate_fallback_narrative

(* C2: the remote service is called at most once per execution, exactly    *)
(* once when the prompt was built and not at all when it was not; after a  *)
(* failed call the count stays at that one call up to the return: the      *)
(* call is not issued a second time.                                       *)
C2_SingleCall ==
    /\ invokeCalls <= 1
    /\ invokeCalls = Occurrences(LogInvoke)
    /\ pc \in {"invoked", "returned"} /\ PromptBuilt => invokeCalls = 1
    /\ ~PromptBuilt => invokeCalls = 0
    /\ RemoteCallFailed => invokeCalls = 1 /\ pc \in {"except", "returned"}

C2_Witness ==
    /\ pc = "returned"
    /\ RemoteCallFailed
    /\ InLog(LogHandler)
    /\ invokeCalls = 1

(* C9: the stages run in the order prompt construction, remote call,       *)
(* extraction, each at most once, and a failure skips the later ones: the  *)
(* call is made only after the prompt was built, extraction runs only      *)
(* after the call returned a parsed response, and a failed call reaches    *)
(* the one handler, which produces the fallback exactly once.              *)
C9_StageOrder ==
    /\ \A m \in {LogPrepare, LogInvoke, LogReceived, LogInvokeError,
                 LogProcess, LogHandler, LogFallback} : Occurrences(m) <= 1
    /\ InLog(LogInvoke) =>
          /\ PromptBuilt
          /\ Pos(LogPrepare) > 0 /\ Pos(LogPrepare) < Pos(LogInvoke)
    /\ InLog(LogProcess) =>
          /\ InLog(LogReceived)
          /\ Pos(LogInvoke) < Pos(LogReceived)
          /\ Pos(LogReceived) < Pos(LogProcess)
          /\ ~RemoteCallFailed
    /\ ~PromptBuilt => ~InLog(LogInvoke) /\ ~InLog(LogProcess)
    /\ RemoteCallFailed => ~InLog(LogReceived) /\ ~InLog(LogProcess) /\ ~InLog(LogSuccess)
    /\ fallbackCalls <= 1
    /\ pc = "returned" /\ RemoteCallFailed =>
          /\ InLog(LogHandler)
          /\ Pos(LogInvokeError) < Pos(LogHandler)
          /\ fallbackCalls = 1
          /\ Occurrences(LogFallback) = 1

C9_Witness ==
    /\ pc = "returned"
    /\ RemoteCallFailed
    /\ Pos(LogInvokeError) < Pos(LogHandler)
    /\ Pos(LogHandler) < Pos(LogFallback)
    /\ fallbackCalls = 1
    /\ ~InLog(LogProcess)

====
